---- MODULE Spec2Model ----
(***************************************************************************)
(* Cycle-by-cycle model of the in-order pipeline simulator of src/code.py:  *)
(* Pipeline.step, Pipeline.is_done, Pipeline.detect_data_hazard and the     *)
(* SimpleBranchPredictor they consult.                                      *)
(*                                                                          *)
(* An Instruction object is identified by its position in the program list  *)
(* (the objects of a program are distinct: InstructionFactory builds a new  *)
(* one per call).  Its immutable fields live in `program`; the two mutable  *)
(* fields are the functions predicted_taken and actual_taken.               *)
(* A slot of pipeline_regs holds None or the pair <<index, instruction>>.   *)
(***************************************************************************)
EXTENDS Integers, Sequences, FiniteSets, TLC

\* ---------------------------------------------------------------- bounds
\* Longest program explored.
MaxProg == 4
\* Calls of step explored after the latest cycle at which a run can complete.
ExtraCycles == 1
\* Stage-name lists explored beyond main()'s five names.
ExtraStages == 1

\* ------------------------------------------------------ program constants
\* main(): stages = ["IF","ID","EX","MEM","WB"].
NumStages == 5
\* The highest slot index Pipeline.step writes (pipeline_regs[4]).
LastSlot == 4

\* Python's None, for a slot and for a register identifier.
None == <<>>
NoReg == "None"
\* An unset / set optional boolean field of an Instruction.
Unset == "None"
PyBool(b) == IF b THEN "True" ELSE "False"

\* ------------------------------------------------------------ instructions
\* The first four instructions of sample_program as InstructionFactory builds
\* them; the register lists of the fourth also hold a None entry, which
\* create_alu passes through unfiltered.
LoadR1 == [reads |-> {},           writes |-> {"R1"},        is_branch |-> FALSE]
AddR2R1 == [reads |-> {"R1"},      writes |-> {"R2"},        is_branch |-> FALSE]
BeqR2 == [reads |-> {"R2"},        writes |-> {},            is_branch |-> TRUE]
AddR3R5 == [reads |-> {"R5", NoReg}, writes |-> {"R3", NoReg}, is_branch |-> FALSE]

Kinds == {LoadR1, AddR2R1, BeqR2, AddR3R5}

\* Instruction.name: an opaque label, one per program position.
InstrName(i) == <<"I1", "I2", "I3", "I4", "I5", "I6">>[i]

Programs == UNION {[1..n -> Kinds] : n \in 0..MaxProg}

Modes == {"static_taken", "static_not_taken", "random"}

\* A run of n instructions completes within n + stages + stalls cycles and
\* stalls at most once per instruction after the first; step is explored
\* ExtraCycles further.
MaxCycle == (2 * MaxProg - 1) + NumStages + ExtraCycles

VARIABLES
    program,          \* the Instruction objects handed to Pipeline.__init__
    mode,             \* SimpleBranchPredictor.mode
    stages_count,     \* len(self.stages)
    instr_queue,      \* self.instr_queue: program positions not yet fetched
    pipeline_regs,    \* self.pipeline_regs: slot -> None or <<index, instr>>
    cycle,            \* self.cycle
    stalls,           \* self.stalls
    flushed,          \* self.flushed
    timeline,         \* self.timeline: one event record per step
    predicted_taken,  \* Instruction.predicted_taken, per instruction
    actual_taken,     \* Instruction.actual_taken, per instruction
    resolver,         \* the injected predictor's actual_outcome: random, or a
                      \* fixed function of the instruction
    raised,           \* the last call of step ended in an IndexError
    \* history of the run, read by the properties only
    predict_calls,    \* calls of branch_predictor.predict, per instruction
    resolve_calls,    \* calls of branch_predictor.actual_outcome, per instruction
    fetch_log,        \* the <<index, instr>> pairs built at line 86, in order
    squashed,         \* instructions cleared from slot 0 / 1 at lines 96-99
    retired,          \* instructions overwritten out of slot 4 at line 74 / 78
    done_at           \* the cycle counter when is_done() first held, or -1

vars == <<program, mode, stages_count, instr_queue, pipeline_regs, cycle,
          stalls, flushed, timeline, predicted_taken, actual_taken,
          resolver, raised,
          predict_calls, resolve_calls, fetch_log, squashed, retired, done_at>>

Slots == 0..(stages_count - 1)
Instrs == 1..Len(program)

\* ------------------------------------------------------------- predictor
\* A predict that ignores the mode and always flips the coin.
predict_ignores_mode(m) == {TRUE, FALSE}

\* SimpleBranchPredictor.predict: the values it can return in mode m.
predict(m) ==
    IF m = "static_taken" THEN {TRUE}
    ELSE IF m = "static_not_taken" THEN {FALSE}
    ELSE {TRUE, FALSE}

\* SimpleBranchPredictor.actual_outcome: random.random() < 0.4.
actual_outcome == {TRUE, FALSE}

\* Line 92, self.branch_predictor.actual_outcome(instr_obj): what the
\* predictor handed to Pipeline.__init__ can return for instruction i.
resolve(i) ==
    IF resolver.fixed THEN {resolver.of[i]} ELSE actual_outcome

\* SimpleBranchPredictor as a resolver: not a fixed function.
RandomResolver(n) == [fixed |-> FALSE, of |-> [i \in 1..n |-> FALSE]]

\* --------------------------------------------------------------- helpers
\* A hazard test that forgets the "r and" guard, so that None matches None.
detect_data_hazard_none_matches(instr, earlier_instr) ==
    program[instr].reads \cap program[earlier_instr].writes # {}

\* Pipeline.detect_data_hazard(instr, earlier_instr), on two instructions.
detect_data_hazard(instr, earlier_instr) ==
    \E r \in program[instr].reads :
        r # NoReg /\ r \in program[earlier_instr].writes

\* Lines 61-65: the stall decision on the pre-shift slots 1 and 2.
stall_needed(regs) ==
    /\ regs[1] # None
    /\ regs[2] # None
    /\ detect_data_hazard(regs[1][2], regs[2][2])

\* A prediction guard that forgets the "predicted_taken is None" test.
needs_prediction_every_cycle(id_instr, pred) ==
    /\ id_instr # None
    /\ program[id_instr[2]].is_branch

\* A prediction guard with the None test inverted ("is not None").
needs_prediction_when_set(id_instr, pred) ==
    /\ id_instr # None
    /\ program[id_instr[2]].is_branch
    /\ pred[id_instr[2]] # Unset

\* Line 66: the decode occupant is a branch without a prediction.
needs_prediction(id_instr, pred) ==
    /\ id_instr # None
    /\ program[id_instr[2]].is_branch
    /\ pred[id_instr[2]] = Unset

\* A resolution guard that forgets the is_branch test.
needs_resolution_any_instr(ex_entry) ==
    ex_entry # None

\* Line 90: the post-shift execute occupant is a branch.
needs_resolution(ex_entry) ==
    /\ ex_entry # None
    /\ program[ex_entry[2]].is_branch

\* An index taken from the cycle counter, which step has already advanced.
instr_index_from_cycle(tl) == Len(tl) + 1

\* An index taken from the backlog's length instead of the timeline's.
instr_index_from_backlog(tl) == Len(instr_queue)

\* Line 85: the program-order index given to a fetched instruction.
instr_index(tl) == Len(tl)

\* A stall path that lets the decode occupant advance into execute.
stall_shift_advances_decode(regs) ==
    [regs EXCEPT ![4] = regs[3], ![3] = regs[2], ![2] = regs[1], ![1] = None]

\* A stall path that clears execute without first copying it to slot 3.
stall_shift_drops_execute(regs) ==
    [regs EXCEPT ![4] = regs[3], ![2] = None]

\* A stall path that freezes every slot, leaving the writer in execute.
stall_shift_frozen(regs) == regs

\* Lines 74-76: the stall path's shift.
stall_shift(regs) ==
    [regs EXCEPT ![4] = regs[3], ![3] = regs[2], ![2] = None]

\* A normal path whose copies run from slot 0 upwards, so that each one
\* reads a slot the previous one has just overwritten.
normal_shift_ascending(regs, queue, tl) ==
    [regs EXCEPT ![1] = regs[0], ![2] = regs[0], ![3] = regs[0], ![4] = regs[0],
                 ![0] = IF queue # <<>> THEN <<instr_index(tl), Head(queue)>>
                        ELSE None]

\* Lines 78-88: the normal path's shift and fetch.
normal_shift(regs, queue, tl) ==
    [regs EXCEPT ![4] = regs[3], ![3] = regs[2], ![2] = regs[1], ![1] = regs[0],
                 ![0] = IF queue # <<>> THEN <<instr_index(tl), Head(queue)>>
                        ELSE None]

\* A squash that clears the fetch slot only.
squash_fetch_only(regs) ==
    [regs EXCEPT ![0] = None]

\* Lines 96-99: the squash of the fetch and decode slots.
squash(regs) ==
    [regs EXCEPT ![0] = None, ![1] = None]

\* Line 68: the prediction event, keyed to the branch's index and slot 1.
pred_event(idx, p) == <<idx, IF p THEN "PRED:T" ELSE "PRED:N">>

\* Line 73: the stall event, keyed to the cycle.
stall_event(c) == <<c, "DATA_STALL">>

\* A branch-outcome event that never says MISPREDICT.
branch_event_always_correct(idx, mispredict) == <<idx, "PRED_CORRECT">>

\* Lines 95 and 101: the branch-outcome event, keyed to the branch's index.
branch_event(idx, mispredict) ==
    <<idx, IF mispredict THEN "MISPREDICT" ELSE "PRED_CORRECT">>

\* A snapshot whose loop stops one stage short.
snapshot_skips_last_stage(regs) ==
    [s \in DOMAIN regs \ {LastSlot} |->
        IF regs[s] = None THEN "" ELSE InstrName(regs[s][2])]

\* Lines 103-110: the per-stage status of the cycle's record.
snapshot(regs) ==
    [s \in DOMAIN regs |-> IF regs[s] = None THEN "" ELSE InstrName(regs[s][2])]

\* A completion test that forgets the backlog.
is_done_ignores_backlog(regs, queue) ==
    \A s \in DOMAIN regs : regs[s] = None

\* Pipeline.is_done, on a slot array and a backlog.
is_done(regs, queue) ==
    /\ \A s \in DOMAIN regs : regs[s] = None
    /\ queue = <<>>

\* The instructions held in a set of slots.
Occupants(regs, S) == {regs[s][2] : s \in {t \in S : regs[t] # None}}

\* ------------------------------------------------------------------ Init
\* Pipeline.__init__ on a program, a predictor and main()'s five stages.
Init ==
    /\ program \in Programs
    /\ mode \in Modes
    /\ resolver = RandomResolver(Len(program))
    /\ stages_count = NumStages
    /\ raised = FALSE
    /\ instr_queue = [i \in 1..Len(program) |-> i]
    /\ pipeline_regs = [s \in 0..(NumStages - 1) |-> None]
    /\ cycle = 0
    /\ stalls = 0
    /\ flushed = 0
    /\ timeline = <<>>
    /\ predicted_taken = [i \in 1..Len(program) |-> Unset]
    /\ actual_taken = [i \in 1..Len(program) |-> Unset]
    /\ predict_calls = [i \in 1..Len(program) |-> 0]
    /\ resolve_calls = [i \in 1..Len(program) |-> 0]
    /\ fetch_log = <<>>
    /\ squashed = {}
    /\ retired = {}
    /\ done_at = IF program = <<>> THEN 0 ELSE -1

\* ------------------------------------------------------------------ step
\* Pipeline.step (lines 56-113) with a pipeline of at least five slots.  p is
\* what predict returns if this step calls it (line 67) and a what
\* actual_outcome returns if this step calls it (line 92).
Step ==
    /\ cycle < MaxCycle
    /\ stages_count > LastSlot
    /\ LET id_instr == pipeline_regs[1]
           stall == stall_needed(pipeline_regs)
           predicts == needs_prediction(id_instr, predicted_taken)
           fetches == ~stall /\ instr_queue # <<>>
           shifted == IF stall THEN stall_shift(pipeline_regs)
                      ELSE normal_shift(pipeline_regs, instr_queue, timeline)
           ex_entry == shifted[2]
           resolves == needs_resolution(ex_entry)
       IN
       \E p \in IF predicts THEN predict(mode) ELSE {FALSE},
          a \in IF resolves THEN resolve(ex_entry[2]) ELSE {FALSE} :
        LET pred1 == IF predicts
                     THEN [predicted_taken EXCEPT ![id_instr[2]] = PyBool(p)]
                     ELSE predicted_taken
            act1 == IF resolves
                    THEN [actual_taken EXCEPT ![ex_entry[2]] = PyBool(a)]
                    ELSE actual_taken
            mispredict == resolves /\ pred1[ex_entry[2]] # act1[ex_entry[2]]
            regs1 == IF mispredict THEN squash(shifted) ELSE shifted
            queue1 == IF fetches THEN Tail(instr_queue) ELSE instr_queue
            record == [pred   |-> IF predicts THEN pred_event(id_instr[1], p)
                                  ELSE None,
                       stall  |-> IF stall THEN stall_event(cycle + 1) ELSE None,
                       branch |-> IF resolves
                                  THEN branch_event(ex_entry[1], mispredict)
                                  ELSE None,
                       stages |-> snapshot(regs1)]
        IN  /\ cycle' = cycle + 1
            /\ raised' = FALSE
            /\ stalls' = IF stall THEN stalls + 1 ELSE stalls
            /\ flushed' = IF mispredict THEN flushed + 1 ELSE flushed
            /\ predicted_taken' = pred1
            /\ actual_taken' = act1
            /\ pipeline_regs' = regs1
            /\ instr_queue' = queue1
            /\ timeline' = Append(timeline, record)
            /\ predict_calls' = IF predicts
                                THEN [predict_calls EXCEPT ![id_instr[2]] = @ + 1]
                                ELSE predict_calls
            /\ resolve_calls' = IF resolves
                                THEN [resolve_calls EXCEPT ![ex_entry[2]] = @ + 1]
                                ELSE resolve_calls
            /\ fetch_log' = IF fetches THEN Append(fetch_log, shifted[0])
                            ELSE fetch_log
            /\ retired' = retired \cup
                            (Occupants(pipeline_regs, {4}) \ Occupants(shifted, Slots))
            /\ squashed' = squashed \cup
                            (Occupants(shifted, Slots) \ Occupants(regs1, Slots))
            /\ done_at' = IF done_at = -1 /\ is_done(regs1, queue1)
                          THEN cycle + 1 ELSE done_at
    /\ UNCHANGED <<program, mode, stages_count, resolver>>

Next == Step

Spec == Init /\ [][Next]_vars

\* The driving loop (PipelineView.run_all, the Step button) keeps calling step.
FairSpec == Spec /\ WF_vars(Step)

\* ------------------------------------------------ deterministic predictor
\* The resolvers that are a fixed function of the instruction (only a
\* branch is ever resolved).
FixedResolvers(prog) ==
    {[fixed |-> TRUE, of |-> f] :
        f \in {g \in [1..Len(prog) -> BOOLEAN] :
                  \A i \in 1..Len(prog) : ~prog[i].is_branch => ~g[i]}}

\* Pipeline.__init__ with a predictor whose predict is static (taken or
\* not-taken) and whose actual_outcome is a fixed function of the instruction.
InitDet ==
    /\ program \in Programs
    /\ mode \in {"static_taken", "static_not_taken"}
    /\ resolver \in FixedResolvers(program)
    /\ stages_count = NumStages
    /\ raised = FALSE
    /\ instr_queue = [i \in 1..Len(program) |-> i]
    /\ pipeline_regs = [s \in 0..(NumStages - 1) |-> None]
    /\ cycle = 0
    /\ stalls = 0
    /\ flushed = 0
    /\ timeline = <<>>
    /\ predicted_taken = [i \in 1..Len(program) |-> Unset]
    /\ actual_taken = [i \in 1..Len(program) |-> Unset]
    /\ predict_calls = [i \in 1..Len(program) |-> 0]
    /\ resolve_calls = [i \in 1..Len(program) |-> 0]
    /\ fetch_log = <<>>
    /\ squashed = {}
    /\ retired = {}
    /\ done_at = IF program = <<>> THEN 0 ELSE -1

DetSpec == InitDet /\ [][Next]_vars

\* ---------------------------------------------------- other stage counts
\* The lengths of the stage-name list handed to Pipeline.__init__.
StageCounts == 0..(NumStages + ExtraStages)

\* Pipeline.__init__ (lines 29-39) on a stage-name list of any length, with
\* main()'s predictor: the constructor stores the list unchecked and builds
\* one slot per name.
InitStages ==
    /\ program \in Programs
    /\ mode = "static_not_taken"
    /\ resolver = RandomResolver(Len(program))
    /\ stages_count \in StageCounts
    /\ raised = FALSE
    /\ instr_queue = [i \in 1..Len(program) |-> i]
    /\ pipeline_regs = [s \in 0..(stages_count - 1) |-> None]
    /\ cycle = 0
    /\ stalls = 0
    /\ flushed = 0
    /\ timeline = <<>>
    /\ predicted_taken = [i \in 1..Len(program) |-> Unset]
    /\ actual_taken = [i \in 1..Len(program) |-> Unset]
    /\ predict_calls = [i \in 1..Len(program) |-> 0]
    /\ resolve_calls = [i \in 1..Len(program) |-> 0]
    /\ fetch_log = <<>>
    /\ squashed = {}
    /\ retired = {}
    /\ done_at = IF program = <<>> THEN 0 ELSE -1

\* Pipeline.step on a pipeline of fewer than five slots: an IndexError leaves
\* the call part-way.  Line 57 has advanced the cycle counter.  With fewer than
\* three slots line 61 or 62 raises next.  With three or four, lines 63-73 run
\* (hazard check, prediction, stall counter) and then line 74 or 78 raises,
\* reading pipeline_regs[3] or assigning pipeline_regs[4], before any slot is
\* written; nothing is fetched and no record is appended.
StepFault ==
    /\ cycle < MaxCycle
    /\ stages_count <= LastSlot
    /\ cycle' = cycle + 1
    /\ raised' = TRUE
    /\ IF stages_count < 3
       THEN UNCHANGED <<stalls, predicted_taken, predict_calls>>
       ELSE LET id_instr == pipeline_regs[1]
                stall == stall_needed(pipeline_regs)
                predicts == needs_prediction(id_instr, predicted_taken)
            IN  \E p \in IF predicts THEN predict(mode) ELSE {FALSE} :
                  /\ stalls' = IF stall THEN stalls + 1 ELSE stalls
                  /\ predicted_taken' =
                        IF predicts
                        THEN [predicted_taken EXCEPT ![id_instr[2]] = PyBool(p)]
                        ELSE predicted_taken
                  /\ predict_calls' =
                        IF predicts
                        THEN [predict_calls EXCEPT ![id_instr[2]] = @ + 1]
                        ELSE predict_calls
    /\ UNCHANGED <<program, mode, stages_count, resolver, instr_queue,
                   pipeline_regs, flushed, timeline, actual_taken,
                   resolve_calls, fetch_log, squashed, retired, done_at>>

NextStages == Step \/ StepFault

SpecStages == InitStages /\ [][NextStages]_vars

\* ------------------------------------------------------------ properties
LastRecord == timeline[Len(timeline)]
OccupiedSlots == {s \in Slots : pipeline_regs[s] # None}
QueueSet == {instr_queue[k] : k \in DOMAIN instr_queue}

\* Instruction i reads a register that instruction j writes.
ReadsWhatItWrites(i, j) ==
    (program[i].reads \cap program[j].writes) \ {NoReg} # {}

\* C1 (stall step effect): a step taken with slots 1 and 2 occupied and a
\* register read by the slot-1 instruction written by the slot-2 instruction
\* adds exactly 1 to the stall counter, records a stall event in the cycle's
\* record, leaves slot 0, slot 1 and the backlog as they were, moves slot 3
\* to slot 4 and slot 2 to slot 3, and leaves slot 2 empty.
C1_StallStepEffect ==
    [][(/\ pipeline_regs[1] # None
        /\ pipeline_regs[2] # None
        /\ ReadsWhatItWrites(pipeline_regs[1][2], pipeline_regs[2][2])) =>
         /\ stalls' = stalls + 1
         /\ timeline'[Len(timeline')].stall = <<cycle', "DATA_STALL">>
         /\ pipeline_regs'[0] = pipeline_regs[0]
         /\ pipeline_regs'[1] = pipeline_regs[1]
         /\ instr_queue' = instr_queue
         /\ fetch_log' = fetch_log
         /\ pipeline_regs'[4] = pipeline_regs[3]
         /\ pipeline_regs'[3] = pipeline_regs[2]
         /\ pipeline_regs'[2] = None]_vars

\* A stall step has just run: its record holds the stall event, the reader is
\* still in decode, the writer has moved on to slot 3.
C1_Witness ==
    /\ timeline # <<>>
    /\ LastRecord.stall # None
    /\ stalls > 0
    /\ pipeline_regs[1] # None
    /\ pipeline_regs[2] = None
    /\ pipeline_regs[3] # None
    /\ ReadsWhatItWrites(pipeline_regs[1][2], pipeline_regs[3][2])

\* C2 (misprediction squash): a step that leaves in slot 2 a branch whose
\* resolved outcome differs from its prediction adds exactly 1 to the flush
\* counter, records a misprediction event keyed to the branch's index, leaves
\* slots 0 and 1 empty in the state and in the record's snapshot, also when
\* it fetched an instruction, and leaves slots 2, 3 and 4 as the shift set them.
C2_MispredictionSquash ==
    [][LET e == pipeline_regs'[2]
       IN  (/\ cycle' = cycle + 1
            /\ e # None
            /\ program[e[2]].is_branch
            /\ predicted_taken'[e[2]] # actual_taken'[e[2]])
           =>
           /\ flushed' = flushed + 1
           /\ timeline'[Len(timeline')].branch = <<e[1], "MISPREDICT">>
           /\ pipeline_regs'[0] = None
           /\ pipeline_regs'[1] = None
           /\ timeline'[Len(timeline')].stages[0] = ""
           /\ timeline'[Len(timeline')].stages[1] = ""
           /\ pipeline_regs'[2] = pipeline_regs[1]
           /\ pipeline_regs'[3] = pipeline_regs[2]
           /\ pipeline_regs'[4] = pipeline_regs[3]]_vars

\* A misprediction was recorded in a step that also fetched an instruction
\* and found the decode slot occupied after its shift: both were squashed.
C2_Witness ==
    /\ timeline # <<>>
    /\ LastRecord.branch # None
    /\ LastRecord.branch[2] = "MISPREDICT"
    /\ fetch_log # <<>>
    /\ fetch_log[Len(fetch_log)][1] = Len(timeline) - 1
    /\ Cardinality(squashed) >= 2
    /\ pipeline_regs[0] = None
    /\ pipeline_regs[1] = None
    /\ pipeline_regs[2] # None

\* C3 (conservation): backlog + occupied slots + squashed + retired is the
\* program length; no instruction is in two slots, twice in the backlog, or in
\* the backlog and a slot; an instruction leaves only out of the last slot or
\* by a squash in a step that records a misprediction event.
C3_ConservationState ==
    /\ Len(instr_queue) + Cardinality(OccupiedSlots)
         + Cardinality(squashed) + Cardinality(retired) = Len(program)
    /\ Cardinality(Occupants(pipeline_regs, Slots)) = Cardinality(OccupiedSlots)
    /\ Cardinality(QueueSet) = Len(instr_queue)
    /\ QueueSet \cap Occupants(pipeline_regs, Slots) = {}
    /\ (QueueSet \cup Occupants(pipeline_regs, Slots)) \cap (squashed \cup retired) = {}
    /\ squashed \cap retired = {}

C3_Conservation ==
    /\ []C3_ConservationState
    /\ [][LET before == QueueSet \cup Occupants(pipeline_regs, Slots)
              after == {instr_queue'[k] : k \in DOMAIN instr_queue'}
                         \cup Occupants(pipeline_regs', Slots)
              left == before \ after
          IN  /\ after \subseteq before
              /\ \A i \in left :
                    \/ i \in Occupants(pipeline_regs, {LastSlot})
                    \/ /\ timeline'[Len(timeline')].branch # None
                       /\ timeline'[Len(timeline')].branch[2] = "MISPREDICT"
                       /\ i \in squashed']_vars

\* Every term of the sum is in play: an instruction was squashed, another
\* retired, and a third still occupies a slot.
C3_Witness ==
    /\ squashed # {}
    /\ retired # {}
    /\ OccupiedSlots # {}

\* C4 (termination with bound): under repeated calls of step every run
\* reaches is_done(), and the cycle counter when it first holds is at most
\* program length + number of stages + stalls incurred.
C4_TerminationWithinBound ==
    /\ <>is_done(pipeline_regs, instr_queue)
    /\ [](done_at # -1 => done_at <= Len(program) + stages_count + stalls)
    /\ [](is_done(pipeline_regs, instr_queue) => done_at # -1)

\* A run that stalled has completed exactly at the bound.
C4_Witness ==
    /\ is_done(pipeline_regs, instr_queue)
    /\ stalls > 0
    /\ done_at = Len(program) + stages_count + stalls

\* C5 (step after completion): a step taken when is_done() holds leaves the
\* backlog and every slot empty, so is_done() still holds, leaves the stall and
\* flush counters unchanged and adds 1 to the cycle counter.
C5_StepAfterDone ==
    [][is_done(pipeline_regs, instr_queue) =>
         /\ instr_queue' = <<>>
         /\ \A s \in Slots : pipeline_regs'[s] = None
         /\ is_done(pipeline_regs', instr_queue')
         /\ stalls' = stalls
         /\ flushed' = flushed
         /\ cycle' = cycle + 1
         /\ Len(timeline') = Len(timeline) + 1]_vars

\* A non-empty program has completed and step has been called again since.
C5_Witness ==
    /\ program # <<>>
    /\ is_done(pipeline_regs, instr_queue)
    /\ done_at >= 0
    /\ cycle > done_at

\* C6 (once-only prediction fields): a predicted_taken that holds a boolean is
\* not changed by any later step, stall cycles with the branch held in decode
\* included, and neither is an actual_taken that holds a boolean.
C6_OnceOnlyFields ==
    [][\A i \in Instrs :
         /\ predicted_taken[i] # Unset => predicted_taken'[i] = predicted_taken[i]
         /\ actual_taken[i] # Unset => actual_taken'[i] = actual_taken[i]]_vars

\* A branch was predicted in a stall cycle, stayed in decode, was resolved
\* and has since moved on to slot 3 with both fields set.
C6_Witness ==
    /\ pipeline_regs[3] # None
    /\ predicted_taken[pipeline_regs[3][2]] # Unset
    /\ actual_taken[pipeline_regs[3][2]] # Unset
    /\ \E k \in DOMAIN timeline :
         /\ timeline[k].stall # None
         /\ timeline[k].pred # None
         /\ timeline[k].pred[1] = pipeline_regs[3][1]

\* C7 as stated (a stall and a misprediction can both occur in one cycle),
\* in the state the spec's reasoning points at: slots 1 and 2 are in hazard and
\* the instruction waiting behind execute is a branch.  There some outcome of
\* step would have to record both a stall and a misprediction.
C7_StallAndMispredictionPossible ==
    (/\ cycle < MaxCycle
     /\ pipeline_regs[1] # None
     /\ pipeline_regs[2] # None
     /\ ReadsWhatItWrites(pipeline_regs[1][2], pipeline_regs[2][2])
     /\ program[pipeline_regs[1][2]].is_branch)
    => ENABLED (/\ Step
                /\ stalls' = stalls + 1
                /\ flushed' = flushed + 1)

\* C7 (amended): a stall and a misprediction never occur in the same cycle.
\* No step adds to both the stall counter and the flush counter, and no record
\* holds a stall event together with a branch-outcome event: the stall path
\* leaves slot 2 empty, so a stall step resolves no branch.
C7_NoStallWithMisprediction ==
    /\ [][~(stalls' > stalls /\ flushed' > flushed)]_vars
    /\ [](\A k \in DOMAIN timeline :
            timeline[k].stall # None => timeline[k].branch = None)

\* The nearest a run gets: a branch is held in decode by a stall cycle and is
\* mispredicted in the very next cycle.
C7_Witness ==
    /\ Len(timeline) >= 2
    /\ timeline[Len(timeline) - 1].stall # None
    /\ timeline[Len(timeline) - 1].pred # None
    /\ LastRecord.branch # None
    /\ LastRecord.branch[2] = "MISPREDICT"
    /\ LastRecord.branch[1] = timeline[Len(timeline) - 1].pred[1]

\* The set of branch instructions of the program.
Branches == {i \in Instrs : program[i].is_branch}

\* C8 as stated: over a complete run predict is called exactly once for
\* every branch instruction of the program.
C8_PredictOncePerBranch ==
    is_done(pipeline_regs, instr_queue) =>
        \A i \in Branches : predict_calls[i] = 1

\* C8 (amended): over a complete run predict is called exactly once for every
\* branch instruction that is not squashed and never for a squashed one; a
\* call is made in a step at whose start the branch occupies slot 1 with no
\* prediction yet; predict is never called for a non-branch instruction.
C8_PredictOncePerSurvivingBranch ==
    /\ [](is_done(pipeline_regs, instr_queue) =>
            \A i \in Branches :
                predict_calls[i] = IF i \in squashed THEN 0 ELSE 1)
    /\ [](\A i \in Instrs :
            /\ predict_calls[i] <= 1
            /\ i \notin Branches => predict_calls[i] = 0)
    /\ [][\A i \in Instrs :
            predict_calls'[i] # predict_calls[i] =>
                /\ pipeline_regs[1] # None
                /\ pipeline_regs[1][2] = i
                /\ predicted_taken[i] = Unset
                /\ predicted_taken'[i] # Unset]_vars

\* A complete run with one branch squashed (never predicted) and another that
\* was held in decode by a stall and predicted once.
C8_Witness ==
    /\ is_done(pipeline_regs, instr_queue)
    /\ stalls > 0
    /\ \E i \in Branches : i \in squashed /\ predict_calls[i] = 0
    /\ \E j \in Branches :
         /\ predict_calls[j] = 1
         /\ \E k \in DOMAIN timeline :
               /\ timeline[k].stall # None
               /\ timeline[k].pred # None
               /\ timeline[k].stages[1] = InstrName(j)

\* C9 as stated: over a complete run actual_outcome is called exactly once
\* for every branch instruction of the program.
C9_ResolveOncePerBranch ==
    is_done(pipeline_regs, instr_queue) =>
        \A i \in Branches : resolve_calls[i] = 1

\* C9 (amended): over a complete run actual_outcome is called exactly once for
\* every branch instruction that is not squashed and never for a squashed
\* one; a call is made in the step whose shift places the branch in slot 2;
\* actual_outcome is never called for a non-branch instruction.
C9_ResolveOncePerSurvivingBranch ==
    /\ [](is_done(pipeline_regs, instr_queue) =>
            \A i \in Branches :
                resolve_calls[i] = IF i \in squashed THEN 0 ELSE 1)
    /\ [](\A i \in Instrs :
            /\ resolve_calls[i] <= 1
            /\ i \notin Branches => resolve_calls[i] = 0)
    /\ [][\A i \in Instrs :
            resolve_calls'[i] # resolve_calls[i] =>
                /\ pipeline_regs[1] # None
                /\ pipeline_regs[1][2] = i
                /\ pipeline_regs'[2] = pipeline_regs[1]
                /\ actual_taken[i] = Unset
                /\ actual_taken'[i] # Unset]_vars

\* A complete run with one branch resolved once and a later branch squashed
\* before it reached execute.
C9_Witness ==
    /\ is_done(pipeline_regs, instr_queue)
    /\ \E i \in Branches : i \in squashed /\ resolve_calls[i] = 0
    /\ \E j \in Branches : j \in retired /\ resolve_calls[j] = 1

\* C10 (index monotonicity and uniqueness): a fetched instruction is tagged
\* once, with the timeline's length at its fetch; over the fetches of a run
\* the indices strictly increase, so no two fetched instructions, squashed
\* ones included, carry the same index.
C10_IndexMonotonic ==
    /\ [](\A k, l \in DOMAIN fetch_log :
            k < l => fetch_log[k][1] < fetch_log[l][1])
    /\ [](\A s \in OccupiedSlots :
            \E k \in DOMAIN fetch_log : fetch_log[k] = pipeline_regs[s])
    /\ [][fetch_log' # fetch_log =>
            /\ fetch_log' = Append(fetch_log, <<Len(timeline), Head(instr_queue)>>)
            /\ pipeline_regs'[0] \in {None, <<Len(timeline), Head(instr_queue)>>}]_vars

\* Four fetches, the last after a stall cycle that consumed no index, and an
\* instruction among them squashed.
C10_Witness ==
    /\ Len(fetch_log) = 4
    /\ stalls > 0
    /\ squashed # {}
    /\ fetch_log[4][1] > fetch_log[3][1] + 1

\* The indices given out so far, and those of instructions since squashed.
FetchedIndices == {fetch_log[k][1] : k \in DOMAIN fetch_log}
SquashedIndices ==
    {fetch_log[k][1] : k \in {j \in DOMAIN fetch_log : fetch_log[j][2] \in squashed}}
SurvivingIndices == FetchedIndices \ SquashedIndices
LargestIndex == fetch_log[Len(fetch_log)][1]

\* C11 as stated: every integer below the largest assigned index that no
\* surviving (in-flight or retired) instruction carries is the index of an
\* instruction that was fetched and later squashed.
C11_GapsOnlyFromSquashes ==
    fetch_log # <<>> =>
        \A n \in 0..(LargestIndex - 1) :
            n \notin SurvivingIndices => n \in SquashedIndices

\* C11 (amended): every integer below the largest assigned index that no
\* surviving instruction carries is the index of an instruction fetched and
\* later squashed, or the timeline length at the start of a stall cycle (a
\* stall cycle appends a record and fetches nothing, so its index is skipped).
C11_GapsFromSquashesAndStalls ==
    fetch_log # <<>> =>
        \A n \in 0..(LargestIndex - 1) :
            n \notin SurvivingIndices =>
                \/ n \in SquashedIndices
                \/ /\ n \notin FetchedIndices
                   /\ timeline[n + 1].stall # None

\* Below the largest index there is one skipped by a stall cycle and one
\* carried by a squashed instruction.
C11_Witness ==
    /\ fetch_log # <<>>
    /\ \E n \in 0..(LargestIndex - 1) :
          n \notin FetchedIndices /\ timeline[n + 1].stall # None
    /\ \E n \in 0..(LargestIndex - 1) : n \in SquashedIndices

\* C12 (timeline is append-only, one record per cycle): every step appends
\* exactly one record and leaves the earlier records as they were, so the
\* timeline's length is the cycle counter after every step, and the appended
\* record holds, for every stage index, the name of the slot's occupant after
\* the step, or the empty status.
C12_TimelineAppendOnly ==
    /\ [](Len(timeline) = cycle)
    /\ [][/\ Len(timeline') = Len(timeline) + 1
          /\ SubSeq(timeline', 1, Len(timeline)) = timeline
          /\ DOMAIN timeline'[Len(timeline')].stages = Slots
          /\ \A s \in Slots :
                timeline'[Len(timeline')].stages[s] =
                    IF pipeline_regs'[s] = None THEN ""
                    ELSE InstrName(pipeline_regs'[s][2])]_vars

\* Three records, the last taken with an instruction in every one of the
\* first three slots after a step that fetched.
C12_Witness ==
    /\ Len(timeline) = 3
    /\ cycle = 3
    /\ LastRecord.stages[0] = "I3"
    /\ LastRecord.stages[1] = "I2"
    /\ LastRecord.stages[2] = "I1"
    /\ LastRecord.stages[3] = ""

\* C13 as stated (any stage count >= 3 is tolerated): on a pipeline built
\* with three or more stage names no call of step ends in an error, and every
\* call applies one full cycle, so the timeline's length follows the cycle
\* counter.
C13_StageCountAtLeastThreeTolerated ==
    stages_count >= 3 => (~raised /\ Len(timeline) = cycle)

\* C14 as stated (a stage count below 3 fails at construction): step is never
\* called on a pipeline with fewer than three stages.
C14_StageCountBelowThreeRejected ==
    cycle > 0 => stages_count >= 3

\* What a run shows of itself: the timeline and the three counters.
Observed == <<timeline, cycle, stalls, flushed>>

\* C15 (determinism): with a fixed instruction sequence and a predictor whose
\* predict and resolve are fixed functions of the instruction, a state has one
\* successor only: whenever step takes the run to a timeline and counters o,
\* no call of step from the same state leads to any other.  From the same
\* initial state two runs therefore agree record for record and counter for
\* counter after every step.
C15_Determinism ==
    [][\A o \in {Observed'} : ~ENABLED (Step /\ Observed' # o)]_vars

\* A run under a fixed predictor that has stalled, resolved a branch as
\* predicted and mispredicted another.
C15_Witness ==
    /\ resolver.fixed
    /\ stalls > 0
    /\ flushed > 0
    /\ \E k \in DOMAIN timeline :
          timeline[k].branch # None /\ timeline[k].branch[2] = "PRED_CORRECT"

\* The hazard condition of the claim, on the slots at the start of a step.
HazardAtStart ==
    /\ pipeline_regs[1] # None
    /\ pipeline_regs[2] # None
    /\ ReadsWhatItWrites(pipeline_regs[1][2], pipeline_regs[2][2])

\* C16 (hazard condition is exact): a step takes the stall path exactly when,
\* at its start, slots 1 and 2 are occupied and a register identifier other
\* than None read by the slot-1 instruction is written by the slot-2
\* instruction.  Otherwise it takes the normal path: slots 2, 3 and 4 receive
\* slots 1, 2 and 3, the front of the backlog is fetched (or nothing, when the
\* backlog is empty), and slots 1 and 0 receive slot 0 and the fetched
\* instruction unless the step's misprediction squashes them.  Writers in
\* slots 3 and 4 play no part.
C16_HazardConditionExact ==
    [][LET rec == timeline'[Len(timeline')]
           squashes == rec.branch # None /\ rec.branch[2] = "MISPREDICT"
           fetched == IF instr_queue # <<>>
                      THEN <<Len(timeline), Head(instr_queue)>> ELSE None
       IN  /\ (rec.stall # None) <=> HazardAtStart
           /\ (stalls' = stalls + 1) <=> HazardAtStart
           /\ ~HazardAtStart =>
                /\ stalls' = stalls
                /\ pipeline_regs'[4] = pipeline_regs[3]
                /\ pipeline_regs'[3] = pipeline_regs[2]
                /\ pipeline_regs'[2] = pipeline_regs[1]
                /\ pipeline_regs'[1] = IF squashes THEN None ELSE pipeline_regs[0]
                /\ pipeline_regs'[0] = IF squashes THEN None ELSE fetched
                /\ instr_queue' = IF instr_queue # <<>> THEN Tail(instr_queue)
                                  ELSE instr_queue
                /\ fetch_log' = IF instr_queue # <<>>
                                THEN Append(fetch_log, fetched) ELSE fetch_log]_vars

\* A normal step has just moved on two instructions that shared only a None
\* entry (read by the one in decode, written by the one in execute), while the
\* instruction now in decode reads what the one now in slot 4 writes.
C16_Witness ==
    /\ timeline # <<>>
    /\ LastRecord.stall = None
    /\ stalls = 0
    /\ pipeline_regs[1] # None
    /\ pipeline_regs[2] # None
    /\ pipeline_regs[3] # None
    /\ pipeline_regs[4] # None
    /\ NoReg \in program[pipeline_regs[2][2]].reads
    /\ NoReg \in program[pipeline_regs[3][2]].writes
    /\ ReadsWhatItWrites(pipeline_regs[1][2], pipeline_regs[4][2])

\* The cycles whose record holds a stall event / a misprediction event.
StallCycles == {k \in DOMAIN timeline : timeline[k].stall # None}
MispredictCycles ==
    {k \in DOMAIN timeline :
        timeline[k].branch # None /\ timeline[k].branch[2] = "MISPREDICT"}
JustStalled == timeline # <<>> /\ LastRecord.stall # None

\* C17 (no two consecutive stall cycles): after a stall step slot 2 is empty,
\* so the next step does not stall and moves the held decode instruction into
\* slot 2; the stall counter never exceeds half the cycle counter rounded up.
C17_NoConsecutiveStalls ==
    /\ [](\A k \in StallCycles : k + 1 \notin StallCycles)
    /\ [](JustStalled => (pipeline_regs[2] = None /\ pipeline_regs[1] # None))
    /\ [][JustStalled =>
            /\ stalls' = stalls
            /\ timeline'[Len(timeline')].stall = None
            /\ pipeline_regs'[2] = pipeline_regs[1]]_vars
    /\ [](2 * stalls <= cycle + 1)

\* Two stall cycles as close as they get: one cycle apart.
C17_Witness ==
    \E k \in StallCycles : k + 2 \in StallCycles /\ Len(timeline) > k + 2

\* C18 (in-order occupancy): of two occupied slots the higher one holds the
\* instruction with the smaller index, which is also the earlier one of the
\* program; every backlog instruction comes later in the program than every
\* instruction in a slot; over a step an instruction stays in its slot or
\* moves to the next one, and an instruction leaves the backlog into slot 0.
C18_InOrderOccupancy ==
    /\ [](\A i, j \in OccupiedSlots :
            i < j => /\ pipeline_regs[j][1] < pipeline_regs[i][1]
                     /\ pipeline_regs[j][2] < pipeline_regs[i][2])
    /\ [](\A q \in QueueSet, s \in OccupiedSlots : pipeline_regs[s][2] < q)
    /\ [][\A t \in {u \in Slots : pipeline_regs'[u] # None} :
            \/ /\ pipeline_regs'[t][2] \in QueueSet
               /\ pipeline_regs'[t][2] = Head(instr_queue)
               /\ t = 0
            \/ \E s \in OccupiedSlots :
                  /\ pipeline_regs[s] = pipeline_regs'[t]
                  /\ t \in {s, s + 1}]_vars

\* A stall has opened a bubble in slot 2 with instructions on both sides of
\* it, after an earlier instruction has retired.
C18_Witness ==
    /\ OccupiedSlots = {1, 3, 4} \/ OccupiedSlots = {0, 1, 3, 4}
    /\ stalls > 0
    /\ Cardinality(retired) > 0

\* The instruction a record's branch-outcome event is keyed to.
InstrOfIndex(n) ==
    fetch_log[CHOOSE k \in DOMAIN fetch_log : fetch_log[k][1] = n][2]

\* C19 (prediction precedes resolution): an instruction whose actual_taken is
\* set has its predicted_taken set; a step that resolves a branch leaves both
\* fields boolean, and a misprediction is counted and recorded only when the
\* two booleans differ.
C19_PredictionPrecedesResolution ==
    /\ [](\A i \in Instrs :
            actual_taken[i] # Unset => predicted_taken[i] \in {"True", "False"})
    /\ [](\A k \in DOMAIN timeline :
            timeline[k].branch # None =>
                LET i == InstrOfIndex(timeline[k].branch[1])
                IN  /\ predicted_taken[i] \in {"True", "False"}
                    /\ actual_taken[i] \in {"True", "False"}
                    /\ (timeline[k].branch[2] = "MISPREDICT")
                         <=> (predicted_taken[i] # actual_taken[i]))
    /\ [][flushed' # flushed =>
            /\ pipeline_regs'[2] # None
            /\ predicted_taken'[pipeline_regs'[2][2]] \in {"True", "False"}
            /\ actual_taken'[pipeline_regs'[2][2]] \in {"True", "False"}
            /\ predicted_taken'[pipeline_regs'[2][2]]
                 # actual_taken'[pipeline_regs'[2][2]]]_vars

\* A branch was predicted and resolved by one and the same step: predicted
\* in decode before the shift, resolved in execute after it.
C19_Witness ==
    /\ timeline # <<>>
    /\ LastRecord.pred # None
    /\ LastRecord.branch # None
    /\ LastRecord.pred[1] = LastRecord.branch[1]
    /\ LastRecord.branch[2] = "PRED_CORRECT"

\* C20 (counters agree with the timeline): the stall counter is the number of
\* records with a stall event and the flush counter the number of records with
\* a misprediction event; a record holds at most one stall event, keyed to its
\* own cycle, and at most one branch-outcome event; neither counter decreases.
C20_CountersAgreeWithTimeline ==
    /\ [](stalls = Cardinality(StallCycles))
    /\ [](flushed = Cardinality(MispredictCycles))
    /\ [](\A k \in DOMAIN timeline :
            /\ timeline[k].stall \in {None, <<k, "DATA_STALL">>}
            /\ \/ timeline[k].branch = None
               \/ /\ Len(timeline[k].branch) = 2
                  /\ timeline[k].branch[2] \in {"MISPREDICT", "PRED_CORRECT"})
    /\ [][stalls' >= stalls /\ flushed' >= flushed]_vars

\* A run with two stall records and a misprediction record.
C20_Witness ==
    /\ stalls = 2
    /\ flushed >= 1
    /\ Cardinality(StallCycles) = 2

====
